---- MODULE Spec2Model ----
(***************************************************************************)
(* A model of github.com/Zapharaos/lingo.                                  *)
(*                                                                         *)
(* Part 1: the process-wide service holder (_globalService guarded by the  *)
(* reader-writer lock _globalServiceMu), SetLocalizerService and the       *)
(* restore closure it returns, GetLocalizerService, and the three global   *)
(* pass-through functions, executed step by step by concurrent goroutines. *)
(*                                                                         *)
(* Part 2: the go-i18n backed registry: NewI18n and                        *)
(* I18nLocalizerService.GetLocalizer.                                      *)
(***************************************************************************)
EXTENDS Integers, Sequences, FiniteSets, TLC

\* ------------------------------------------------------------------ bounds

\* Goroutines of the unconstrained concurrent specification (Spec).
NumClients == 2
\* Distinct non-nil services a caller may install (the mocks of the tests).
NumServices == 2
\* SetLocalizerService calls made over a whole behaviour of Spec or SpecGlobal
\* (restore invocations are not counted: the closure their inner call returns is dropped).
MaxSwaps == 2
\* SetLocalizerService calls made over a whole behaviour of SpecSeq.
MaxSeqSwaps == 3
\* Writer goroutines of the concurrent-writes scenario (SpecWriters).
NumWriters == 3
\* Writer and reader goroutines of the mixed scenario (SpecMixed).
NumMixedWriters == 2
NumReaders == 1
\* Distinct argument tuples handed to a pass-through function.
NumArgs == 2
\* Base languages of the locale tags (each also occurs with a region subtag).
NumLangs == 2
\* Directory entries that may yield a translation file descriptor.
MaxFiles == 2
\* Non-empty message ids a caller may ask a translation of.
NumMsgIds == 2
\* Entries of the scanned directory.
MaxEntries == 2
\* Dot-separated segments of a filename given to the locale extraction.
MaxSegments == 4
\* Goroutines of the liveness specification, and the swaps they make (closure
\* invocations and reads are not bounded).
NumLive == 2
MaxLiveSwaps == 1

Max(a, b) == IF a >= b THEN a ELSE b

\* The nil interface value of LocalizerService.
Nil == 0
Services == 1..NumServices
ServiceOrNil == {Nil} \cup Services

Clients == 1..NumClients
Writers == 1..NumWriters
MixedWriters == 1..NumMixedWriters
Readers == (NumMixedWriters + 1)..(NumMixedWriters + NumReaders)
\* The goroutine that runs a concurrent subtest: it starts the others, waits
\* for them and cleans up.
Tester == Max(Max(NumClients, NumWriters), NumMixedWriters + NumReaders) + 1
Threads == 1..Tester

\* The goroutine of the sequential specification, and the two of SpecGlobal.
Main == 1
Caller == 1
Installer == 2

ClosureIds == 1..Max(Max(MaxSwaps, MaxSeqSwaps), Max(NumWriters, NumMixedWriters + 1))
Args == 1..NumArgs

GlobalOps == {"GetLocalizer", "Translate", "MustTranslate"}

VARIABLES
    globalService,  \* _globalService: the held service, or Nil
    muWriter,       \* _globalServiceMu: the goroutine that holds or awaits the write lock, or 0
    muReaders,      \* _globalServiceMu: the goroutines that hold the read lock
    pc,             \* each goroutine's position
    op,             \* each goroutine's operation: "none", "Set", "Restore", "Get" or a pass-through
    service,        \* SetLocalizerService's parameter `service`
    prev,           \* SetLocalizerService's local `prev`
    cid,            \* the closure a Set is about to return, or the closure a Restore runs
    arg,            \* the argument tuple of a pass-through call
    got,            \* GetLocalizerService's return value
    ret,            \* a pass-through call's outcome
    closures,       \* the restore closures returned so far: each holds its captured prev
    nSwaps,         \* SetLocalizerService calls made so far (restores not counted)
    called,         \* per goroutine: the calls the services received from its pass-through call
    \* history variables: they record what happened and steer nothing
    snap,           \* per closure: the value held immediately before its swap's write
    seen,           \* per goroutine: the values held since its current call began
    original,       \* the value held before the first operation
    owner,          \* per closure: the goroutine it was returned to
    finished,       \* the goroutines whose closure has been invoked and has returned
    checked,        \* what the subtest's GetLocalizerService after wg.Wait returned,
                    \* Unset before
    installed,      \* per closure: the service its swap installed
    pred,           \* per closure: the closure of the swap whose write came directly before, or 0
    lastWrite,      \* the latest write to the holder: <<kind, closure>>
    repeat,         \* the value held before the latest write, when that write was a restore
                    \* that directly followed a restore of the same closure; Unset otherwise
    undo,           \* the closures of the swaps that are properly nested so far
    \* the registry (SpecRegistry)
    regIn,          \* NewI18n's inputs: the default language, what the scan returns, the
                    \* paths the backend fails to load
    reg,            \* what NewI18n returned: the service (or none) and the error
    lookup,         \* what the latest GetLocalizer call on the service returned
    \* translation (SpecTranslate)
    catalog,        \* what the backend's Localize answers, per localizer and message id
    tr,             \* the latest Translate or MustTranslate call on the service and
                    \* its outcome
    \* the scan (SpecScan)
    scanIn,         \* the directory at translationsPath and the prefixes asked for
    scanned,        \* what the latest discoverTranslationFiles call returned
    \* locale extraction (SpecLocale)
    extracted       \* a filename and what extractAndValidateLocaleFromFilename
                    \* returned for it

holderVars == <<globalService, muWriter, muReaders, pc, op, service, prev, cid, arg,
                got, ret, closures, nSwaps, called>>
stepHistory == <<snap, seen, original>>
chainVars == <<installed, pred, lastWrite, repeat, undo>>
scenarioVars == <<owner, finished, checked>>
regVars == <<regIn, reg, lookup>>
translateVars == <<catalog, tr>>
scanVars == <<scanIn, scanned, extracted>>
libVars == <<regVars, translateVars, scanVars>>
vars == <<holderVars, stepHistory, scenarioVars, chainVars, libVars>>

\* ---------------------------------------------------------------- values

NoRet == [kind |-> "none", val |-> 0, ok |-> FALSE, err |-> FALSE]
Panic == [kind |-> "panic", val |-> 0, ok |-> FALSE, err |-> FALSE]

NoClosure == [made |-> FALSE, prev |-> Nil]
Unset == -1

\* What a mock service answers: gomock's EXPECT().Return(...) of the tests. The
\* value tells the service, the method and the arguments apart; GetLocalizer and
\* Translate answer found/success = TRUE, together with a non-nil error for the
\* first argument tuple; MustTranslate answers a string alone.
MethodIndex(m) == CASE m = "GetLocalizer" -> 1 [] m = "Translate" -> 2 [] OTHER -> 3

MockReturn(s, m, a) ==
    [kind |-> "ok",
     val  |-> 100 * MethodIndex(m) + 10 * s + a,
     ok   |-> m # "MustTranslate",
     err  |-> (m # "MustTranslate") /\ (a = 1)]

\* ------------------------------------------------------------ the holder

SnapshotNew(held, new) == new

\* prev := _globalService
SnapshotOf(held, new) == held

\* _globalService = service
StoreOf(held, new) == new

ClosureArgNil(c) == Nil

ClosureArgShared(c) == closures[nSwaps].prev

\* func() { SetLocalizerService(prev) }: the service the closure installs
ClosureArg(c) == c.prev

CapturedToggled(c, held) == held

\* The closure's captured prev after an invocation: the inner call's prev is a
\* local of that call, the captured one is never assigned.
CapturedAfterInvoke(c, held) == c.prev

LoadStale(held) == Nil

\* return _globalService
LoadOf(held) == held

NoLock(t) == TRUE

\* sync.RWMutex.Lock, first half: take the writers' mutex and announce the writer;
\* from here on no new reader is admitted.
CanAnnounce(t) == muWriter = 0

\* sync.RWMutex.Lock, second half: the readers that were inside have left.
CanLock(t) == muReaders = {}

NeverRLock(t) == FALSE

\* sync.RWMutex.RLock: blocked while a writer holds or awaits the lock.
CanRLock(t) == muWriter = 0

Reset(f, t, v) == [f EXCEPT ![t] = v]

\* SetLocalizerService(s) is called and _globalServiceMu.Lock() takes the
\* writers' mutex: the writer is announced, no new reader is admitted. (A call
\* that finds the mutex taken waits before this step.)
SetCall(t, s) ==
    /\ pc[t] = "idle"
    /\ CanAnnounce(t)
    /\ muWriter' = t
    /\ nSwaps' = nSwaps + 1
    /\ pc' = [pc EXCEPT ![t] = "set_wait"]
    /\ op' = [op EXCEPT ![t] = "Set"]
    /\ service' = [service EXCEPT ![t] = s]
    /\ cid' = [cid EXCEPT ![t] = nSwaps + 1]
    /\ UNCHANGED <<globalService, muReaders, prev, arg, got, ret, closures, called,
                   stepHistory, scenarioVars, chainVars, libVars>>

\* SetLocalizerService(s) is called: the caller is at _globalServiceMu.Lock()
\* and has not taken the writers' mutex yet.
SetBegin(t, s) ==
    /\ pc[t] = "idle"
    /\ nSwaps' = nSwaps + 1
    /\ pc' = [pc EXCEPT ![t] = "set_call"]
    /\ op' = [op EXCEPT ![t] = "Set"]
    /\ service' = [service EXCEPT ![t] = s]
    /\ cid' = [cid EXCEPT ![t] = nSwaps + 1]
    /\ UNCHANGED <<globalService, muWriter, muReaders, prev, arg, got, ret, closures, called,
                   stepHistory, scenarioVars, chainVars, libVars>>

\* Restore closure c is invoked and calls SetLocalizerService(prev): the caller
\* is at _globalServiceMu.Lock().
RestoreBegin(t, c) ==
    /\ pc[t] = "idle"
    /\ closures[c].made
    /\ pc' = [pc EXCEPT ![t] = "set_call"]
    /\ op' = [op EXCEPT ![t] = "Restore"]
    /\ service' = [service EXCEPT ![t] = ClosureArg(closures[c])]
    /\ cid' = [cid EXCEPT ![t] = c]
    /\ UNCHANGED <<globalService, muWriter, muReaders, prev, arg, got, ret, closures, nSwaps,
                   called, stepHistory, scenarioVars, chainVars, libVars>>

\* _globalServiceMu.Lock() takes the writers' mutex: the writer is announced.
SetAcquire(t) ==
    /\ pc[t] = "set_call"
    /\ CanAnnounce(t)
    /\ muWriter' = t
    /\ pc' = [pc EXCEPT ![t] = "set_wait"]
    /\ UNCHANGED <<globalService, muReaders, op, service, prev, cid, arg, got, ret, closures,
                   nSwaps, called, stepHistory, scenarioVars, chainVars, libVars>>

\* Restore closure c is invoked: it calls SetLocalizerService(prev), whose Lock
\* takes the writers' mutex.
RestoreCall(t, c) ==
    /\ pc[t] = "idle"
    /\ closures[c].made
    /\ CanAnnounce(t)
    /\ muWriter' = t
    /\ pc' = [pc EXCEPT ![t] = "set_wait"]
    /\ op' = [op EXCEPT ![t] = "Restore"]
    /\ service' = [service EXCEPT ![t] = ClosureArg(closures[c])]
    /\ cid' = [cid EXCEPT ![t] = c]
    /\ UNCHANGED <<globalService, muReaders, prev, arg, got, ret, closures, nSwaps, called,
                   stepHistory, scenarioVars, chainVars, libVars>>

\* _globalServiceMu.Lock() returns: the readers that were inside have left and
\* the write lock is held.
SetLock(t) ==
    /\ pc[t] = "set_wait"
    /\ CanLock(t)
    /\ pc' = [pc EXCEPT ![t] = "set_read"]
    /\ UNCHANGED <<globalService, muWriter, muReaders, op, service, prev, cid, arg, got,
                   ret, closures, nSwaps, called, stepHistory, scenarioVars, chainVars, libVars>>

\* prev := _globalService
SetRead(t) ==
    /\ pc[t] = "set_read"
    /\ prev' = [prev EXCEPT ![t] = SnapshotOf(globalService, service[t])]
    /\ pc' = [pc EXCEPT ![t] = "set_write"]
    /\ UNCHANGED <<globalService, muWriter, muReaders, op, service, cid, arg, got, ret,
                   closures, nSwaps, called, stepHistory, scenarioVars, chainVars, libVars>>

\* _globalService = service. (The chain history is recorded by the
\* specification's next-state relation: see RecordWrite.)
SetWrite(t) ==
    /\ pc[t] = "set_write"
    /\ globalService' = StoreOf(globalService, service[t])
    /\ pc' = [pc EXCEPT ![t] = "set_unlock"]
    /\ snap' = IF op[t] = "Set" THEN [snap EXCEPT ![cid[t]] = globalService] ELSE snap
    /\ seen' = [u \in Threads |->
                  IF pc[u] \in {"get_rlock", "get_read", "get_runlock", "invoke", "in_service", "done"}
                  THEN seen[u] \cup {globalService'} ELSE seen[u]]
    /\ UNCHANGED <<muWriter, muReaders, op, service, prev, cid, arg, got, ret,
                   closures, nSwaps, called, original, scenarioVars, libVars>>

\* return func() { SetLocalizerService(prev) }, then the deferred Unlock. The
\* closure that a restore's inner call returns is dropped by the closure's body.
\* (Who received the closure is recorded by the specification: see RecordOwner.)
SetUnlock(t) ==
    /\ pc[t] = "set_unlock"
    /\ muWriter' = 0
    /\ pc' = [pc EXCEPT ![t] = "idle"]
    /\ IF op[t] = "Set"
       THEN closures' = [closures EXCEPT ![cid[t]] = [made |-> TRUE, prev |-> prev[t]]]
       ELSE closures' = [closures EXCEPT ![cid[t]].prev =
                            CapturedAfterInvoke(closures[cid[t]], prev[t])]
    /\ op' = Reset(op, t, "none")
    /\ service' = Reset(service, t, Nil)
    /\ prev' = Reset(prev, t, Nil)
    /\ cid' = Reset(cid, t, 0)
    /\ UNCHANGED <<globalService, muReaders, arg, got, ret, nSwaps, called,
                   stepHistory, chainVars, libVars>>

\* GetLocalizerService is called (m = "Get"), by its own caller or by a
\* pass-through function (m the function, a its arguments).
GetCall(t, m, a) ==
    /\ pc[t] = "idle"
    /\ pc' = [pc EXCEPT ![t] = "get_rlock"]
    /\ op' = [op EXCEPT ![t] = m]
    /\ arg' = [arg EXCEPT ![t] = a]
    /\ seen' = [seen EXCEPT ![t] = {globalService}]
    /\ UNCHANGED <<globalService, muWriter, muReaders, service, prev, cid, got, ret,
                   closures, nSwaps, called, snap, original, scenarioVars, chainVars, libVars>>

\* _globalServiceMu.RLock()
GetRLock(t) ==
    /\ pc[t] = "get_rlock"
    /\ CanRLock(t)
    /\ muReaders' = muReaders \cup {t}
    /\ pc' = [pc EXCEPT ![t] = "get_read"]
    /\ UNCHANGED <<globalService, muWriter, op, service, prev, cid, arg, got, ret,
                   closures, nSwaps, called, stepHistory, scenarioVars, chainVars, libVars>>

\* return _globalService: the result is evaluated under the read lock.
GetRead(t) ==
    /\ pc[t] = "get_read"
    /\ got' = [got EXCEPT ![t] = LoadOf(globalService)]
    /\ pc' = [pc EXCEPT ![t] = "get_runlock"]
    /\ UNCHANGED <<globalService, muWriter, muReaders, op, service, prev, cid, arg, ret,
                   closures, nSwaps, called, stepHistory, scenarioVars, chainVars, libVars>>

GetRUnlockLate(t) ==
    /\ pc[t] = "get_runlock"
    /\ muReaders' = IF op[t] = "Get" THEN muReaders \ {t} ELSE muReaders
    /\ IF op[t] = "Get"
       THEN /\ pc' = [pc EXCEPT ![t] = "idle"]
            /\ op' = Reset(op, t, "none")
            /\ got' = Reset(got, t, Nil)
            /\ seen' = Reset(seen, t, {})
       ELSE /\ pc' = [pc EXCEPT ![t] = "invoke"]
            /\ UNCHANGED <<op, got, seen>>
    /\ UNCHANGED <<globalService, muWriter, service, prev, cid, arg, ret,
                   closures, nSwaps, called, snap, original, chainVars, libVars>>

\* The deferred RUnlock, and the return of got: to GetLocalizerService's own
\* caller, or to the pass-through function, which is about to call the service.
\* (What a subtest keeps of the result is recorded by the specification.)
GetRUnlock(t) ==
    /\ pc[t] = "get_runlock"
    /\ muReaders' = muReaders \ {t}
    /\ IF op[t] = "Get"
       THEN /\ pc' = [pc EXCEPT ![t] = "idle"]
            /\ op' = Reset(op, t, "none")
            /\ got' = Reset(got, t, Nil)
            /\ seen' = Reset(seen, t, {})
       ELSE /\ pc' = [pc EXCEPT ![t] = "invoke"]
            /\ UNCHANGED <<op, got, seen>>
    /\ UNCHANGED <<globalService, muWriter, service, prev, cid, arg, ret,
                   closures, nSwaps, called, snap, original, chainVars, libVars>>

IsNilNever(s) == FALSE

\* A method call on a nil interface value panics (nil dereference).
IsNilService(s) == s = Nil

MethodSwapped(m) == IF m = "Translate" THEN "MustTranslate" ELSE m

\* The method a pass-through function calls on the service it got: its namesake.
MethodOf(m) == m

\* GetLocalizerService().<Method>(args): the call is made, or panics on nil.
Invoke(t) ==
    /\ pc[t] = "invoke"
    /\ IF IsNilService(got[t])
       THEN /\ pc' = [pc EXCEPT ![t] = "done"]
            /\ ret' = [ret EXCEPT ![t] = Panic]
            /\ UNCHANGED called
       ELSE /\ pc' = [pc EXCEPT ![t] = "in_service"]
            /\ called' = [called EXCEPT ![t] =
                            Append(@, [svc |-> got[t], method |-> MethodOf(op[t]), arg |-> arg[t]])]
            /\ UNCHANGED ret
    /\ UNCHANGED <<globalService, muWriter, muReaders, op, service, prev, cid, arg, got,
                   closures, nSwaps, stepHistory, scenarioVars, chainVars, libVars>>

\* The service's method returns, and the pass-through function returns its results.
ServiceReturn(t) ==
    /\ pc[t] = "in_service"
    /\ LET c == called[t][Len(called[t])] IN
       ret' = [ret EXCEPT ![t] = MockReturn(c.svc, c.method, c.arg)]
    /\ pc' = [pc EXCEPT ![t] = "done"]
    /\ UNCHANGED <<globalService, muWriter, muReaders, op, service, prev, cid, arg, got,
                   closures, nSwaps, called, stepHistory, scenarioVars, chainVars, libVars>>

\* The caller has the results (or has recovered from the panic, as assert.Panics
\* does) and goes on.
Finish(t) ==
    /\ pc[t] = "done"
    /\ pc' = [pc EXCEPT ![t] = "idle"]
    /\ op' = Reset(op, t, "none")
    /\ arg' = Reset(arg, t, 0)
    /\ got' = Reset(got, t, Nil)
    /\ ret' = Reset(ret, t, NoRet)
    /\ seen' = Reset(seen, t, {})
    /\ called' = Reset(called, t, <<>>)
    /\ UNCHANGED <<globalService, muWriter, muReaders, service, prev, cid,
                   closures, nSwaps, snap, original, scenarioVars, chainVars, libVars>>

\* ------------------------------------------------- history of the writes

\* The properly nested swaps after a write: a swap pushes its closure, a restore
\* of the innermost one pops it, any other restore ends the nesting.
UndoAfter(kind, c) ==
    IF ~undo.valid THEN undo
    ELSE IF kind = "swap" THEN [undo EXCEPT !.stack = Append(undo.stack, c)]
    ELSE IF undo.stack # <<>> /\ undo.stack[Len(undo.stack)] = c
         THEN [undo EXCEPT !.stack = SubSeq(undo.stack, 1, Len(undo.stack) - 1)]
         ELSE [undo EXCEPT !.valid = FALSE]

\* What goroutine t's write step adds to the chain history.
RecordWrite(t) ==
    LET kind == IF op[t] = "Set" THEN "swap" ELSE "restore"
        c == cid[t]
    IN /\ lastWrite' = <<kind, c>>
       /\ undo' = UndoAfter(kind, c)
       /\ repeat' = IF kind = "restore" /\ lastWrite = <<"restore", c>>
                    THEN globalService ELSE Unset
       /\ IF kind = "swap"
          THEN /\ installed' = [installed EXCEPT ![c] = service[t]]
               /\ pred' = [pred EXCEPT ![c] = IF lastWrite[1] = "swap" THEN lastWrite[2] ELSE 0]
          ELSE UNCHANGED <<installed, pred>>

\* What goroutine t's return adds: who holds the closure, whose closure has
\* been invoked.
RecordOwner(t) ==
    /\ owner' = IF op[t] = "Set" THEN [owner EXCEPT ![cid[t]] = t] ELSE owner
    /\ finished' = IF op[t] = "Restore" THEN finished \cup {owner[cid[t]]} ELSE finished
    /\ checked' = checked

\* ---------------------------------------------------------- the registry

\* language.Und, and the tags of the model: a base language alone, or with a
\* region subtag ("en", "en-US"). Tags are compared as wholes.
Und == 0
TagOf(b, r) == 10 * b + r
Langs == 1..NumLangs
Tags == {Und} \cup {TagOf(b, r) : b \in Langs, r \in {0, 1}}
Paths == 1..MaxFiles

\* A nil *i18n.Localizer, and the localizer the n-th call of i18n.NewLocalizer
\* makes, for language l.
NilLocalizer == [lang |-> -1, n |-> 0]
NewLocalizer(l, n) == [lang |-> l, n |-> n]

NoService == [built |-> FALSE, localizers |-> <<>>, defaultLang |-> Und]
NoLookup == [lang |-> Und, localizer |-> NilLocalizer, found |-> FALSE, err |-> "none"]
NoResult == [service |-> NoService, err |-> "pending", path |-> 0, loaded |-> <<>>]

\* What discoverTranslationFiles can return: the descriptors in directory order
\* (paths ascending), each with a validated locale (never Und), with or without
\* the error that reports invalid files; or no list and an error.
Descriptors == [path : Paths, locale : Tags \ {Und}]

FileLists ==
    UNION {{f \in [1..n -> Descriptors] : \A i, j \in 1..n : i < j => f[i].path < f[j].path}
           : n \in 0..MaxFiles}

ScanResults ==
    {[files |-> f, err |-> e] : f \in FileLists, e \in {"none", "invalid"}}
        \cup {[files |-> <<>>, err |-> "fatal"]}

LoadEvery(files, fails, i, tried) ==
    [loaded |-> [j \in 1..Len(files) |-> files[j].path],
     failed |-> \E j \in 1..Len(files) : files[j].path \in fails]

\* The loop over translationFiles: bundle.LoadMessageFile on each path in turn,
\* until one fails. The paths tried, and whether the last one failed.
RECURSIVE LoadFrom(_, _, _, _)
LoadFrom(files, fails, i, tried) ==
    IF i > Len(files) THEN [loaded |-> tried, failed |-> FALSE]
    ELSE IF files[i].path \in fails
         THEN [loaded |-> Append(tried, files[i].path), failed |-> TRUE]
         ELSE LoadFrom(files, fails, i + 1, Append(tried, files[i].path))

DefaultFoundAlways(availableLocales, defaultLang) == TRUE

\* for _, locale := range availableLocales { if locale == defaultLang ... }
DefaultFound(availableLocales, defaultLang) ==
    \E i \in 1..Len(availableLocales) : availableLocales[i] = defaultLang

\* localizers[locale] = i18n.NewLocalizer(bundle, locale.String()), in order:
\* a later file of the same locale replaces the entry.
MakeLocalizers(availableLocales) ==
    [l \in {availableLocales[i] : i \in 1..Len(availableLocales)} |->
        LET last == CHOOSE i \in 1..Len(availableLocales) :
                        /\ availableLocales[i] = l
                        /\ \A j \in 1..Len(availableLocales) :
                              availableLocales[j] = l => j <= i
        IN NewLocalizer(l, last)]

NoFilesNever(files) == FALSE

\* len(translationFiles) == 0
NoFiles(files) == Len(files) = 0

ScanFailedFatally(scan) == scan.err = "fatal"

\* translationFiles, err := discoverTranslationFiles(...); if err != nil
ScanFailed(scan) == scan.err # "none"

\* NewI18n(defaultLang, translationsPath, filePrefixes...)
NewI18n(defaultLang, scan, fails) ==
    IF ScanFailed(scan)
    THEN [service |-> NoService, err |-> "discover", path |-> 0, loaded |-> <<>>]
    ELSE IF NoFiles(scan.files)
    THEN [service |-> NoService, err |-> "nofiles", path |-> 0, loaded |-> <<>>]
    ELSE LET load == LoadFrom(scan.files, fails, 1, <<>>)
             availableLocales == [i \in 1..Len(scan.files) |-> scan.files[i].locale]
         IN IF load.failed
            THEN [service |-> NoService, err |-> "load",
                  path |-> load.loaded[Len(load.loaded)], loaded |-> load.loaded]
            ELSE IF ~DefaultFound(availableLocales, defaultLang)
            THEN [service |-> NoService, err |-> "default", path |-> 0,
                  loaded |-> load.loaded]
            ELSE [service |-> [built |-> TRUE,
                               localizers |-> MakeLocalizers(availableLocales),
                               defaultLang |-> defaultLang],
                  err |-> "none", path |-> 0, loaded |-> load.loaded]

MapLookupMiss(m, k) == [value |-> NilLocalizer, found |-> FALSE]

\* localizer, found := t.localizers[language]: exact key equality.
MapLookup(m, k) ==
    IF k \in DOMAIN m THEN [value |-> m[k], found |-> TRUE]
    ELSE [value |-> NilLocalizer, found |-> FALSE]

DefaultLocalizerNil(t) == NilLocalizer

\* defaultLocalizer := t.localizers[t.defaultLang]
DefaultLocalizerOf(t) == MapLookup(t.localizers, t.defaultLang).value

\* (t *I18nLocalizerService) GetLocalizer(language)
I18nGetLocalizer(t, language) ==
    LET l == MapLookup(t.localizers, language) IN
    IF ~l.found
    THEN IF DefaultLocalizerOf(t) = NilLocalizer
         THEN [lang |-> language, localizer |-> NilLocalizer, found |-> FALSE,
               err |-> "default localizer not found"]
         ELSE [lang |-> language, localizer |-> DefaultLocalizerOf(t), found |-> FALSE,
               err |-> "none"]
    ELSE [lang |-> language, localizer |-> l.value, found |-> TRUE, err |-> "none"]

\* The program calls NewI18n.
NewI18nCall ==
    /\ reg.err = "pending"
    /\ reg' = NewI18n(regIn.defaultLang, regIn.scan, regIn.fails)
    /\ UNCHANGED <<regIn, lookup, translateVars, scanVars, holderVars, stepHistory, scenarioVars, chainVars>>

\* The program calls GetLocalizer on the service NewI18n returned.
GetLocalizerCall(l) ==
    /\ reg.service.built
    /\ lookup' = I18nGetLocalizer(reg.service, l)
    /\ UNCHANGED <<regIn, reg, translateVars, scanVars, holderVars, stepHistory, scenarioVars, chainVars>>

\* ------------------------------------------------------------ the scan

\* A file name is the sequence of its segments between the dots:
\* "active.en.toml" is <<"active", "en", "toml">>, "active..toml" is
\* <<"active", "", "toml">>. The names of the model, in the order os.ReadDir
\* lists them (by byte).
FileNames ==
    << <<"README">>,
       <<"act ive", "en", "toml">>,
       <<"active", "", "toml">>,
       <<"active", "en", "TOML">>,
       <<"active", "en", "extra", "toml">>,
       <<"active", "en", "toml">>,
       <<"active", "en", "txt">>,
       <<"active", "en_US", "toml">>,
       <<"active", "english", "YML">>,
       <<"active", "english", "toml">>,
       <<"active", "fr", "json">>,
       <<"active", "toml">>,
       <<"active", "und", "yml">>,
       <<"my_app", "fr", "toml">>,
       <<"other", "en-US", "yaml">> >>

\* The extensions, without their leading dot (the dot is the separator).
supportedExtensions == <<"toml", "json", "yaml", "yml">>

maxTranslationFileSize == 1048576

\* What a directory entry can be: a directory, a readable file of the largest
\* size allowed, a readable file one byte larger, a file that cannot be opened.
EntryKinds ==
    {[isDir |-> TRUE, size |-> 0, readable |-> TRUE],
     [isDir |-> FALSE, size |-> maxTranslationFileSize, readable |-> TRUE],
     [isDir |-> FALSE, size |-> maxTranslationFileSize + 1, readable |-> TRUE],
     [isDir |-> FALSE, size |-> 0, readable |-> FALSE]}

\* The names found in the directories of the model (the other names are given
\* to the functions on names only).
Listed ==
    {k \in 1..Len(FileNames) :
        FileNames[k] \notin {<<"README">>, <<"active", "en_US", "toml">>,
                             <<"active", "toml">>, <<"my_app", "fr", "toml">>}}

\* The listings os.ReadDir can return: up to MaxEntries entries of distinct
\* names, sorted by name.
Listings ==
    UNION {{[i \in 1..n |-> [name |-> FileNames[idx[i]]] @@ kind[i]] :
                idx \in {f \in [1..n -> Listed] :
                            \A i, j \in 1..n : i < j => f[i] < f[j]},
                kind \in [1..n -> EntryKinds]}
           : n \in 0..MaxEntries}

ShortListings == {es \in Listings : Len(es) <= 1}

\* What os.Stat and os.ReadDir find at translationsPath.
DirStatuses == {"ok", "missing", "staterr", "notdir", "readerr"}

PrefixLists == {<<>>, <<"active">>, <<"other", "active">>}

\* strings.ToLower, on the segments of the model.
ToLower(seg) ==
    CASE seg = "TOML" -> "toml"
      [] seg = "JSON" -> "json"
      [] seg = "YAML" -> "yaml"
      [] seg = "YML" -> "yml"
      [] seg = "README" -> "readme"
      [] seg = "en-US" -> "en-us"
      [] seg = "en_US" -> "en_us"
      [] seg = "zh-CN" -> "zh-cn"
      [] seg = "pt-BR" -> "pt-br"
      [] OTHER -> seg

\* The characters of a segment, as far as translationFilenameRegex tells them
\* apart: letters and digits only ("alnum"), these with a "-" ("hyphen"), with a
\* "_" ("underscore"), or with a character of no class of the regex ("other").
\* The table holds the segments of the model's names and of the names the
\* repository's tests use; a segment it does not hold is given no class the
\* regex admits.
CharsOf(seg) ==
    CASE seg = "" -> "empty"
      [] seg \in {"act ive", "a/b", "active@", "active ", "invalid-locale!", "toml/", "/",
                  "/active", "/path/to/active"} -> "other"
      [] seg \in {"my_app", "en_US", "en_us", "messages_v2", "app_v2"} -> "underscore"
      [] seg \in {"en-US", "en-us", "zh-CN", "zh-cn", "pt-BR", "pt-br", "common-ui",
                  "invalid-name"} -> "hyphen"
      [] seg \in {"README", "readme", "active", "other", "en", "fr", "de", "es", "und",
                  "english", "extra", "invalidlang", "toml", "TOML", "json", "JSON",
                  "yaml", "YAML", "yml", "YML", "txt", "xml", "backup", "app", "common",
                  "invalid", "large", "messages", "nonexistent", "notadir", "test",
                  "test123", "valid"} -> "alnum"
      [] OTHER -> "other"

InExtensions(seg) == \E k \in 1..Len(supportedExtensions) : supportedExtensions[k] = seg

\* hasSupportedExtension(filename)
hasSupportedExtension(name) ==
    Len(name) >= 2 /\ InExtensions(ToLower(name[Len(name)]))

AnyPrefix(name, prefixes) == TRUE

\* strings.HasPrefix(fileName, prefix+".") for some prefix of filePrefixes
HasValidPrefix(name, prefixes) ==
    \E k \in 1..Len(prefixes) : Len(name) >= 2 /\ name[1] = prefixes[k]

isValidFileBelow(entry) == entry.readable /\ entry.size < maxTranslationFileSize

\* isValidFile(filePath)
isValidFile(entry) ==
    IF ~entry.readable THEN FALSE
    ELSE IF entry.size > maxTranslationFileSize THEN FALSE
    ELSE TRUE

\* translationFilenameRegex.MatchString(filename)
MatchesAnything(name) == TRUE

MatchesFilenameRegex(name) ==
    /\ Len(name) = 3
    /\ CharsOf(name[1]) \in {"alnum", "hyphen", "underscore"}
    /\ CharsOf(name[2]) \in {"alnum", "hyphen"}
    /\ CharsOf(name[3]) = "alnum"

\* language.Parse(localeStr), on the segments of the model. A segment of two
\* or three letters that is a registered language parses to its tag ("txt" is
\* Citak, "yml" Iamalele), with its region when one follows; letter case is
\* ignored and "_" is read as "-"; in "my_app" the extended language subtag
\* "app" stands for the whole ("app" is Apma); "und" parses to language.Und; an
\* empty segment, a first subtag of four letters or more, or a character that
\* is no letter, digit, "-" or "_" is a syntax error. Languages are numbered
\* en 1, fr 2, de 3, es 4, zh 5, pt 6, app 7, txt 8, yml 9, xml 10 (Malaysian
\* Sign Language); regions US 1, CN 2, BR 3.
ParseTag(seg) ==
    CASE seg = "en" -> [tag |-> TagOf(1, 0), err |-> FALSE]
      [] seg = "fr" -> [tag |-> TagOf(2, 0), err |-> FALSE]
      [] seg \in {"en-US", "en_US", "en-us", "en_us"} -> [tag |-> TagOf(1, 1), err |-> FALSE]
      [] seg = "de" -> [tag |-> TagOf(3, 0), err |-> FALSE]
      [] seg = "es" -> [tag |-> TagOf(4, 0), err |-> FALSE]
      [] seg \in {"zh-CN", "zh-cn"} -> [tag |-> TagOf(5, 2), err |-> FALSE]
      [] seg \in {"pt-BR", "pt-br"} -> [tag |-> TagOf(6, 3), err |-> FALSE]
      [] seg \in {"my_app", "app"} -> [tag |-> TagOf(7, 0), err |-> FALSE]
      [] seg = "txt" -> [tag |-> TagOf(8, 0), err |-> FALSE]
      [] seg \in {"yml", "YML"} -> [tag |-> TagOf(9, 0), err |-> FALSE]
      [] seg = "xml" -> [tag |-> TagOf(10, 0), err |-> FALSE]
      [] seg = "und" -> [tag |-> Und, err |-> FALSE]
      [] OTHER -> [tag |-> Und, err |-> TRUE]

TrimSuffixAnyCase(name) == SubSeq(name, 1, Len(name) - 1)

\* strings.TrimSuffix(filename, ext), for the ext that strings.ToLower(filename)
\* ends with: the suffix is removed when filename itself ends with ext.
TrimSuffix(name) ==
    IF InExtensions(name[Len(name)]) THEN SubSeq(name, 1, Len(name) - 1) ELSE name

\* extractLocaleFromFilename(filename)
extractLocaleFromFilename(name) ==
    LET parts == IF hasSupportedExtension(name) THEN TrimSuffix(name) ELSE name IN
    IF Len(parts) < 2 THEN [locale |-> Und, err |-> "format"]
    ELSE IF ParseTag(parts[Len(parts)]).err THEN [locale |-> Und, err |-> "parse"]
    ELSE [locale |-> ParseTag(parts[Len(parts)]).tag, err |-> "none"]

ValidateNothing(tag) == TRUE

\* validateBCP47Locale(tag) == nil. The tags of the model have a base language
\* and a short string form without reserved characters.
validateBCP47Locale(tag) == tag # Und

\* extractAndValidateLocaleFromFilename(filename)
extractAndValidateLocaleFromFilename(name) ==
    IF ~MatchesFilenameRegex(name) THEN [locale |-> Und, err |-> "regex"]
    ELSE LET x == extractLocaleFromFilename(name) IN
         IF x.err # "none" THEN [locale |-> Und, err |-> x.err]
         ELSE IF ~validateBCP47Locale(x.locale) THEN [locale |-> Und, err |-> "bcp47"]
         ELSE [locale |-> x.locale, err |-> "none"]

\* filepath.Join(translationsPath, fileName)
JoinPath(name) == <<"translations">> \o name

DirFirstNever(entry) == FALSE

\* entry.IsDir()
IsDir(entry) == entry.isDir

CheckEntryFileFirst(entry, prefixes) ==
    IF IsDir(entry) THEN "dir"
    ELSE IF ~hasSupportedExtension(entry.name) THEN "ext"
    ELSE IF ~isValidFile(entry) THEN "file"
    ELSE IF Len(prefixes) > 0 /\ ~HasValidPrefix(entry.name, prefixes) THEN "prefix"
    ELSE IF extractAndValidateLocaleFromFilename(entry.name).err # "none" THEN "locale"
    ELSE "ok"

\* The body of the loop over the entries: the check at which the entry stops
\* ("ok" when it passes them all).
CheckEntry(entry, prefixes) ==
    IF IsDir(entry) THEN "dir"
    ELSE IF ~hasSupportedExtension(entry.name) THEN "ext"
    ELSE IF Len(prefixes) > 0 /\ ~HasValidPrefix(entry.name, prefixes) THEN "prefix"
    ELSE IF ~isValidFile(entry) THEN "file"
    ELSE IF extractAndValidateLocaleFromFilename(entry.name).err # "none" THEN "locale"
    ELSE "ok"

\* What the loop does with an entry that stopped at a check.
Collect(acc, entry, stop) ==
    [files |-> IF stop = "ok"
               THEN Append(acc.files,
                           [path |-> JoinPath(entry.name),
                            locale |-> extractAndValidateLocaleFromFilename(entry.name).locale])
               ELSE acc.files,
     invalid |-> IF stop \in {"file", "locale"} THEN Append(acc.invalid, entry.name)
                 ELSE acc.invalid,
     log |-> Append(acc.log, [name |-> entry.name, stop |-> stop])]

\* for _, entry := range entries
RECURSIVE ScanFrom(_, _, _, _)
ScanFrom(entries, prefixes, i, acc) ==
    IF i > Len(entries) THEN acc
    ELSE ScanFrom(entries, prefixes, i + 1,
                  Collect(acc, entries[i], CheckEntry(entries[i], prefixes)))

ScanFailureSilent(why) ==
    [files |-> <<>>, err |-> "none", why |-> why, invalid |-> <<>>, count |-> 0,
     exts |-> <<>>, log |-> <<>>]

\* return nil, fmt.Errorf(...) before any entry is read
ScanFailure(why) ==
    [files |-> <<>>, err |-> "fatal", why |-> why, invalid |-> <<>>, count |-> 0,
     exts |-> <<>>, log |-> <<>>]

ErrorAlways(invalid) == TRUE

\* len(invalidFiles) > 0
HasInvalid(invalid) == Len(invalid) > 0

\* discoverTranslationFiles(translationsPath, filePrefixes...)
discoverTranslationFiles(dir, prefixes) ==
    IF dir.status = "missing" THEN ScanFailure("does not exist")
    ELSE IF dir.status = "staterr" THEN ScanFailure("cannot access")
    ELSE IF dir.status = "notdir" THEN ScanFailure("not a directory")
    ELSE IF dir.status = "readerr" THEN ScanFailure("failed to read")
    ELSE LET acc == ScanFrom(dir.entries, prefixes, 1,
                             [files |-> <<>>, invalid |-> <<>>, log |-> <<>>])
         IN IF HasInvalid(acc.invalid)
            THEN [files |-> acc.files, err |-> "invalid", why |-> "invalid files",
                  invalid |-> acc.invalid, count |-> Len(acc.invalid),
                  exts |-> supportedExtensions, log |-> acc.log]
            ELSE [files |-> acc.files, err |-> "none", why |-> "", invalid |-> <<>>,
                  count |-> 0, exts |-> <<>>, log |-> acc.log]

NoScan == [files |-> <<>>, err |-> "pending", why |-> "", invalid |-> <<>>, count |-> 0,
           exts |-> <<>>, log |-> <<>>]

\* The segments filenames are made of, and the filenames of up to MaxSegments
\* segments ("a/b" has a path separator; two dots in a row leave an empty
\* segment between them).
Segments == {"", "a/b", "act ive", "active", "my_app", "en", "en-US", "en_US", "english",
             "toml", "TOML", "txt"}

Names == UNION {[1..k -> Segments] : k \in 0..MaxSegments}

NoExtract(name) == [name |-> name, locale |-> Und, err |-> "pending"]

\* The program calls extractAndValidateLocaleFromFilename on the filename.
ExtractCall ==
    /\ extracted.err = "pending"
    /\ extracted' = [name |-> extracted.name,
                     locale |-> extractAndValidateLocaleFromFilename(extracted.name).locale,
                     err |-> extractAndValidateLocaleFromFilename(extracted.name).err]
    /\ UNCHANGED <<scanIn, scanned, regVars, translateVars, holderVars, stepHistory,
                   scenarioVars, chainVars>>

\* The program calls discoverTranslationFiles.
DiscoverCall ==
    /\ scanned.err = "pending"
    /\ scanned' = discoverTranslationFiles(scanIn.dir, scanIn.prefixes)
    /\ UNCHANGED <<scanIn, extracted, regVars, translateVars, holderVars, stepHistory,
                   scenarioVars, chainVars>>

\* The program calls NewI18n on the directory: the scan, then the loads of the
\* files the scan returned, of which the backend fails those in fl.
NewI18nOnDir(d, fl) ==
    /\ reg.err = "pending"
    /\ LET scan == discoverTranslationFiles(scanIn.dir, scanIn.prefixes) IN
         /\ fl \subseteq {scan.files[i].path : i \in 1..Len(scan.files)}
         /\ regIn' = [defaultLang |-> d, scan |-> scan, fails |-> fl]
         /\ reg' = NewI18n(d, scan, fl)
    /\ UNCHANGED <<lookup, scanVars, translateVars, holderVars, stepHistory, scenarioVars,
                   chainVars>>

\* -------------------------------------------------------- translation

\* Message.ID == "", and the ids a message can carry.
EmptyID == 0
MsgIds == 1..NumMsgIds

\* A nil *Message, and &Message{ID: id}.
NilMessage == [isNil |-> TRUE, id |-> EmptyID]
MessageOf(id) == [isNil |-> FALSE, id |-> id]
Messages == {NilMessage} \cup {MessageOf(id) : id \in {EmptyID} \cup MsgIds}

\* What a caller can pass as the localizer: a *i18n.Localizer GetLocalizer
\* returned, or a value of another type (the nil interface included).
WrongType == [lang |-> -2, n |-> 0]
TranslateHandles == {NewLocalizer(TagOf(1, 0), 1), NewLocalizer(TagOf(2, 0), 2)}
LocalizerArgs == TranslateHandles \cup {WrongType}

\* The backend's answers: a rendered text and no error; no text and an error
\* (message not found); a text together with an error (found in the fallback
\* language only, or rendered in the wrong plural form).
BackendAnswers == {"text", "notfound", "partial"}
Rendered(loc, id) == <<loc.lang, id>>

\* loc.Localize(localizeConfig); no catalog holds a message of the empty id.
Localize(loc, id) ==
    CASE id = EmptyID -> [result |-> <<>>, err |-> TRUE]
      [] catalog[<<loc, id>>] = "text" -> [result |-> Rendered(loc, id), err |-> FALSE]
      [] catalog[<<loc, id>>] = "notfound" -> [result |-> <<>>, err |-> TRUE]
      [] OTHER -> [result |-> Rendered(loc, id), err |-> TRUE]

\* loc, ok := localizer.(*i18n.Localizer)
IsLocalizer(localizer) == localizer \in TranslateHandles

EmptyIDAccepted(id) == FALSE

\* message.ID == ""
IsEmptyID(id) == id = EmptyID

OnLocalizeErrorKeep(out) == [result |-> out.result, ok |-> FALSE, err |-> "localize"]

\* if err != nil { return "", false, fmt.Errorf("failed to localize ...") }
OnLocalizeError(out) == [result |-> <<>>, ok |-> FALSE, err |-> "localize"]

\* (t *I18nLocalizerService) Translate(localizer, message): the results and the
\* calls made to the backend.
Translate(localizer, message) ==
    IF ~IsLocalizer(localizer)
    THEN [result |-> <<>>, ok |-> FALSE, err |-> "invalid localizer type", calls |-> <<>>]
    ELSE IF message.isNil
    THEN [result |-> <<>>, ok |-> FALSE, err |-> "message cannot be nil", calls |-> <<>>]
    ELSE IF IsEmptyID(message.id)
    THEN [result |-> <<>>, ok |-> FALSE, err |-> "message ID cannot be empty", calls |-> <<>>]
    ELSE LET out == Localize(localizer, message.id)
             call == <<[loc |-> localizer, id |-> message.id]>>
         IN IF out.err
            THEN [calls |-> call] @@ OnLocalizeError(out)
            ELSE [result |-> out.result, ok |-> TRUE, err |-> "none", calls |-> call]

MustPanicsNever(err) == FALSE

\* if err != nil { panic(...) }
MustPanics(err) == err # "none"

\* (t *I18nLocalizerService) MustTranslate(localizer, message)
MustTranslate(localizer, message) ==
    LET r == Translate(localizer, message) IN
    IF MustPanics(r.err)
    THEN [panic |-> TRUE, result |-> <<>>, calls |-> r.calls]
    ELSE [panic |-> FALSE, result |-> r.result, calls |-> r.calls]

NoCall == [op |-> "none", localizer |-> WrongType, message |-> NilMessage,
           result |-> <<>>, ok |-> FALSE, err |-> "none", panic |-> FALSE, calls |-> <<>>]

\* The program calls Translate on the service.
TranslateCall(l, m) ==
    /\ tr' = [op |-> "Translate", localizer |-> l, message |-> m, panic |-> FALSE]
                 @@ Translate(l, m)
    /\ UNCHANGED <<catalog, regVars, scanVars, holderVars, stepHistory, scenarioVars, chainVars>>

\* The program calls MustTranslate on the service.
MustTranslateCall(l, m) ==
    /\ tr' = [op |-> "MustTranslate", localizer |-> l, message |-> m, ok |-> FALSE,
              err |-> "none"] @@ MustTranslate(l, m)
    /\ UNCHANGED <<catalog, regVars, scanVars, holderVars, stepHistory, scenarioVars, chainVars>>

\* ------------------------------------------------------- specifications

InitGlobals(g) ==
    /\ globalService = g
    /\ muWriter = 0
    /\ muReaders = {}
    /\ pc = [t \in Threads |-> "idle"]
    /\ op = [t \in Threads |-> "none"]
    /\ service = [t \in Threads |-> Nil]
    /\ prev = [t \in Threads |-> Nil]
    /\ cid = [t \in Threads |-> 0]
    /\ arg = [t \in Threads |-> 0]
    /\ got = [t \in Threads |-> Nil]
    /\ ret = [t \in Threads |-> NoRet]
    /\ closures = [c \in ClosureIds |-> NoClosure]
    /\ nSwaps = 0
    /\ called = [t \in Threads |-> <<>>]
    /\ snap = [c \in ClosureIds |-> Unset]
    /\ seen = [t \in Threads |-> {}]
    /\ original = g
    /\ owner = [c \in ClosureIds |-> 0]
    /\ finished = {}
    /\ checked = Unset
    /\ installed = [c \in ClosureIds |-> Unset]
    /\ pred = [c \in ClosureIds |-> 0]
    /\ lastWrite = <<"init", 0>>
    /\ repeat = Unset
    /\ undo = [valid |-> TRUE, stack |-> <<>>]

\* NewI18n has not been called.
InitRegistryIdle ==
    /\ regIn = [defaultLang |-> Und, scan |-> [files |-> <<>>, err |-> "fatal"], fails |-> {}]
    /\ reg = NoResult
    /\ lookup = NoLookup

\* No translation has been asked for.
InitTranslateIdle ==
    /\ catalog = [x \in TranslateHandles \X MsgIds |-> "text"]
    /\ tr = NoCall

\* No directory has been scanned.
InitScanIdle ==
    /\ scanIn = [dir |-> [status |-> "missing", entries |-> <<>>], prefixes |-> <<>>]
    /\ scanned = NoScan
    /\ extracted = NoExtract(<<>>)

InitHolder(g) == InitGlobals(g) /\ InitRegistryIdle /\ InitTranslateIdle /\ InitScanIdle

\* The zero value of the package-level variables.
Init == InitHolder(Nil)

\* Spec: NumClients goroutines call SetLocalizerService, restore closures (their
\* own or another goroutine's) and GetLocalizerService in any interleaving.
Next ==
    \E t \in Clients :
        \/ \E s \in ServiceOrNil : nSwaps < MaxSwaps /\ SetCall(t, s)
        \/ \E c \in ClosureIds : RestoreCall(t, c)
        \/ SetLock(t)
        \/ SetRead(t)
        \/ SetWrite(t) /\ UNCHANGED chainVars
        \/ SetUnlock(t) /\ UNCHANGED scenarioVars
        \/ GetCall(t, "Get", 0)
        \/ GetRLock(t)
        \/ GetRead(t)
        \/ GetRUnlock(t) /\ UNCHANGED scenarioVars

Spec == Init /\ [][Next]_vars

\* SpecSeq: one goroutine swaps and restores, as the sequential tests do; the
\* order of the writes is recorded.
NextSeq ==
    \/ \E s \in ServiceOrNil : nSwaps < MaxSeqSwaps /\ SetCall(Main, s)
    \/ \E c \in ClosureIds : RestoreCall(Main, c)
    \/ SetLock(Main)
    \/ SetRead(Main)
    \/ SetWrite(Main) /\ RecordWrite(Main)
    \/ SetUnlock(Main) /\ UNCHANGED scenarioVars

SpecSeq == Init /\ [][NextSeq]_vars

\* The mock a writer goroutine of the concurrent tests installs: its own.
MockOf(t) == t

\* The service installed before the goroutines of a concurrent test start.
BaseMock == Cardinality(Threads) + 1

HasClosure(t) == \E c \in ClosureIds : owner[c] = t

\* A service that an earlier test left in the holder.
Leftover == BaseMock + 1

Lowest(S) == CHOOSE x \in S : \A y \in S : x <= y

\* wg.Wait() of "Concurrent writes are safe" returns: every writer has its
\* closure.
AllReturned == \A t \in Writers : HasClosure(t) /\ pc[t] = "idle"

\* SpecWriters ("Concurrent writes are safe"): NumWriters goroutines each call
\* SetLocalizerService once, each with its own mock. When all have returned
\* the test goroutine calls GetLocalizerService, for the assertion, and then
\* invokes the closures in the order of restoreFuncs.
InitWriters == \E g \in {Nil, BaseMock} : InitHolder(g)

NextWriters ==
    \/ \E t \in Writers : ~HasClosure(t) /\ SetCall(t, MockOf(t))
    \/ AllReturned /\ checked = Unset /\ GetCall(Tester, "Get", 0)
    \/ GetRLock(Tester)
    \/ GetRead(Tester)
    \/ GetRUnlock(Tester) /\ checked' = got[Tester] /\ UNCHANGED <<owner, finished>>
    \/ /\ checked # Unset
       /\ Writers \ finished # {}
       /\ \E c \in ClosureIds : owner[c] = Lowest(Writers \ finished) /\ RestoreCall(Tester, c)
    \/ \E t \in Writers \cup {Tester} :
        \/ SetLock(t)
        \/ SetRead(t)
        \/ SetWrite(t) /\ UNCHANGED chainVars
        \/ SetUnlock(t) /\ RecordOwner(t)

SpecWriters == InitWriters /\ [][NextWriters]_vars

\* The concurrent part of "Mixed concurrent reads and writes are safe": the
\* test goroutine has installed its mock and has not begun its deferred
\* restore.
Concurrent == HasClosure(Tester) /\ pc[Tester] = "idle" /\ Tester \notin finished

\* wg.Wait() of the mixed subtest returns: every writer has invoked its closure
\* and no reader is in a call.
Waited ==
    /\ MixedWriters \subseteq finished
    /\ \A t \in MixedWriters \cup Readers : pc[t] = "idle"

\* SpecMixed ("Mixed concurrent reads and writes are safe"): the test goroutine
\* installs a mock over what an earlier test left (nil or a service); then each
\* writer goroutine installs its own mock and invokes the closure it got,
\* once, while the reader goroutines call GetLocalizerService; when all are
\* done the test goroutine's deferred originalRestore runs.
InitMixed == \E g \in {Nil, Leftover} : InitHolder(g)

NextMixed ==
    \/ ~HasClosure(Tester) /\ SetCall(Tester, BaseMock)
    \/ \E t \in MixedWriters :
        \/ Concurrent /\ ~HasClosure(t) /\ SetCall(t, MockOf(t))
        \/ \E c \in ClosureIds : owner[c] = t /\ t \notin finished /\ RestoreCall(t, c)
    \/ \E t \in MixedWriters \cup {Tester} :
        \/ SetLock(t)
        \/ SetRead(t)
        \/ SetWrite(t) /\ UNCHANGED chainVars
        \/ SetUnlock(t) /\ RecordOwner(t)
    \/ \E t \in Readers :
        \/ Concurrent /\ GetCall(t, "Get", 0)
        \/ GetRLock(t)
        \/ GetRead(t)
        \/ GetRUnlock(t) /\ UNCHANGED scenarioVars
    \/ /\ Concurrent
       /\ Waited
       /\ \E c \in ClosureIds : owner[c] = Tester /\ RestoreCall(Tester, c)

SpecMixed == InitMixed /\ [][NextMixed]_vars

\* SpecGlobal: one goroutine calls the pass-through functions while another
\* installs services (or nil).
NextGlobal ==
    \/ \E s \in ServiceOrNil : nSwaps < MaxSwaps /\ SetCall(Installer, s)
    \/ SetLock(Installer)
    \/ SetRead(Installer)
    \/ SetWrite(Installer) /\ UNCHANGED chainVars
    \/ SetUnlock(Installer) /\ UNCHANGED scenarioVars
    \/ \E m \in GlobalOps, a \in Args : GetCall(Caller, m, a)
    \/ GetRLock(Caller)
    \/ GetRead(Caller)
    \/ GetRUnlock(Caller) /\ UNCHANGED scenarioVars
    \/ Invoke(Caller)
    \/ ServiceReturn(Caller)
    \/ Finish(Caller)

SpecGlobal == Init /\ [][NextGlobal]_vars

\* SpecLive: NumLive goroutines swap (installing service 1: the value plays
\* no part in the locking), invoke closures and read, a call to
\* SetLocalizerService or to a closure being pending until it takes the
\* writers' mutex, under the fairness of the Go runtime. A runnable goroutine
\* is scheduled in the end: the steps of Runs wait for nothing, or, for the
\* writer's wait for the readers, stay possible once they are, since no reader
\* enters after the writer is announced. sync.Mutex hands the mutex to a waiter
\* that has waited long (starvation mode), and RWMutex.Unlock admits the
\* readers that wait before the next writer: a goroutine that can take the lock
\* again and again does take it. Hence strong fairness of each goroutine's
\* next step, which for the steps of Runs says no more than weak fairness.
Runs(t) ==
    \/ SetLock(t)
    \/ SetRead(t)
    \/ SetWrite(t) /\ UNCHANGED chainVars
    \/ SetUnlock(t) /\ UNCHANGED scenarioVars
    \/ GetRead(t)
    \/ GetRUnlock(t) /\ UNCHANGED scenarioVars

NextLive ==
    \E t \in 1..NumLive :
        \/ nSwaps < MaxLiveSwaps /\ SetBegin(t, 1)
        \/ \E c \in ClosureIds : RestoreBegin(t, c)
        \/ SetAcquire(t)
        \/ GetCall(t, "Get", 0)
        \/ GetRLock(t)
        \/ Runs(t)

Proceeds(t) == Runs(t) \/ SetAcquire(t) \/ GetRLock(t)

Fairness == \A t \in 1..NumLive : SF_vars(Proceeds(t))

SpecLive == Init /\ [][NextLive]_vars /\ Fairness

\* SpecRegistry: NewI18n is called with some default language, over some scan
\* result and some set of files the backend cannot load; GetLocalizer is then
\* called on the service, if one was returned.
InitRegistry ==
    /\ InitGlobals(Nil)
    /\ InitTranslateIdle
    /\ InitScanIdle
    /\ \E d \in Tags, sc \in ScanResults :
         \E fl \in SUBSET {sc.files[i].path : i \in 1..Len(sc.files)} :
            regIn = [defaultLang |-> d, scan |-> sc, fails |-> fl]
    /\ reg = NoResult
    /\ lookup = NoLookup

NextRegistry ==
    \/ NewI18nCall
    \/ \E l \in Tags : GetLocalizerCall(l)

SpecRegistry == InitRegistry /\ [][NextRegistry]_vars

\* SpecTranslate: over some catalog of the backend, Translate and MustTranslate
\* are called with any localizer argument and any message.
InitTranslate ==
    /\ InitGlobals(Nil)
    /\ InitRegistryIdle
    /\ InitScanIdle
    /\ catalog \in [TranslateHandles \X MsgIds -> BackendAnswers]
    /\ tr = NoCall

NextTranslate ==
    \E l \in LocalizerArgs, m \in Messages :
        \/ TranslateCall(l, m)
        \/ MustTranslateCall(l, m)

SpecTranslate == InitTranslate /\ [][NextTranslate]_vars

\* SpecScan: some directory is at translationsPath; discoverTranslationFiles is
\* called on it with some prefixes, and NewI18n is, with English or French as
\* the default language and a backend that loads every file or fails one.
InitScan ==
    /\ InitGlobals(Nil)
    /\ InitRegistryIdle
    /\ InitTranslateIdle
    /\ \E ps \in PrefixLists :
         \/ \E es \in Listings :
              scanIn = [dir |-> [status |-> "ok", entries |-> es], prefixes |-> ps]
         \/ \E st \in DirStatuses \ {"ok"}, es \in ShortListings :
              scanIn = [dir |-> [status |-> st, entries |-> es], prefixes |-> ps]
    /\ scanned = NoScan
    /\ extracted = NoExtract(<<>>)

NextScan ==
    \/ DiscoverCall
    \/ \E d \in {TagOf(1, 0), TagOf(2, 0)}, k \in 0..Len(FileNames) :
          NewI18nOnDir(d, IF k = 0 THEN {} ELSE {JoinPath(FileNames[k])})

SpecScan == InitScan /\ [][NextScan]_vars

\* Locale extraction: extractAndValidateLocaleFromFilename is called on a
\* filename of up to MaxSegments segments.
InitLocale ==
    /\ InitGlobals(Nil)
    /\ InitRegistryIdle
    /\ InitTranslateIdle
    /\ scanIn = [dir |-> [status |-> "missing", entries |-> <<>>], prefixes |-> <<>>]
    /\ scanned = NoScan
    /\ \E n \in Names : extracted = NoExtract(n)

NextLocale == ExtractCall

SpecLocale == InitLocale /\ [][NextLocale]_vars

\* ------------------------------------------------- claims on the holder

\* C1: SetLocalizerService(s) replaces the held service with s (s may be nil)
\* in one atomic step: when its write is done the holder is s and the prev it
\* captured is the value held immediately before that write. The closure it
\* returns holds that value, and an invocation of the closure sets the holder
\* to it, whatever the holder held when the closure was invoked.
C1_SwapAndRestore ==
    /\ \A t \in Threads :
         pc[t] = "set_unlock" =>
            /\ globalService = service[t]
            /\ op[t] = "Set" => prev[t] = snap[cid[t]]
            /\ op[t] = "Restore" => globalService = snap[cid[t]]
    /\ \A c \in ClosureIds : closures[c].made => closures[c].prev = snap[c]

\* A restore has written a non-nil snapshot over a holder that held another value.
C1_Witness ==
    \E t \in Threads :
        /\ pc[t] = "set_unlock"
        /\ op[t] = "Restore"
        /\ snap[cid[t]] # Nil
        /\ prev[t] # snap[cid[t]]

\* C2: after swap(A) directly followed by swap(B), an invocation of B's restore
\* closure leaves the holder equal to A, whatever swaps and restores were made
\* in between; and while the swaps are undone in reverse order the holder is
\* what the innermost swap still standing installed, the original value once
\* none stands.
C2_RoundTrip ==
    /\ \A t \in Threads :
         (pc[t] = "set_unlock" /\ op[t] = "Restore" /\ pred[cid[t]] # 0)
            => globalService = installed[pred[cid[t]]]
    /\ undo.valid =>
         globalService = IF undo.stack = <<>> THEN original
                         ELSE installed[undo.stack[Len(undo.stack)]]

\* The second swap's closure restores the first swap's service A after a third
\* swap was made, over a holder that did not hold A.
C2_Witness ==
    /\ pc[Main] = "set_unlock"
    /\ op[Main] = "Restore"
    /\ cid[Main] = 2
    /\ pred[2] = 1
    /\ closures[3].made
    /\ installed[1] # Nil
    /\ prev[Main] # installed[1]

\* C3: a restore closure invoked twice in a row, with no other write in between,
\* leaves the holder as the first invocation left it (and the second invocation
\* returns).
C3_RestoreIdempotent == repeat # Unset => globalService = repeat

\* A second invocation in a row has returned, of a closure whose snapshot is
\* not what its own swap installed.
C3_Witness ==
    /\ repeat # Unset
    /\ pc[Main] = "idle"
    /\ lastWrite[1] = "restore"
    /\ closures[lastWrite[2]].prev # installed[lastWrite[2]]

\* C4: the value a GetLocalizerService call is about to return is one the holder
\* held at some instant since the call began; readers during whose calls no
\* write was made all return the service that is installed.
C4_ReadsHeldValue ==
    \A t \in Threads :
        pc[t] = "get_runlock" =>
            /\ got[t] \in seen[t]
            /\ Cardinality(seen[t]) = 1 => got[t] = globalService
            /\ \A u \in Threads :
                 (pc[u] = "get_runlock" /\ Cardinality(seen[u]) = 1 /\ Cardinality(seen[t]) = 1)
                    => got[u] = got[t]

\* A reader returns a non-nil service that a writer installed during its call,
\* while another reader is inside.
C4_Witness ==
    \E t, u \in Threads :
        /\ t # u
        /\ pc[t] = "get_runlock"
        /\ pc[u] \in {"get_read", "get_runlock"}
        /\ Cardinality(seen[t]) >= 2
        /\ got[t] # Nil

\* C5: once NumWriters goroutines have each called SetLocalizerService once,
\* each with its own service, and all calls have returned, the holder contains
\* one of those services and the captured snapshots are pairwise distinct: the
\* original value and every installed service but the one that is held (the
\* swaps form one chain); the service the test then reads is one of them. This
\* is the state before the test's cleanup invokes the first closure.
Snapshots == {closures[c].prev : c \in 1..NumWriters}

NoneInvoked == finished = {} /\ op[Tester] # "Restore"

C5_WritesSerialised ==
    /\ (AllReturned /\ NoneInvoked) =>
          /\ globalService \in {MockOf(t) : t \in Writers}
          /\ \A c, d \in 1..NumWriters : c # d => closures[c].prev # closures[d].prev
          /\ Snapshots = {original} \cup ({MockOf(t) : t \in Writers} \ {globalService})
    /\ checked # Unset => checked \in {MockOf(t) : t \in Writers}

\* All writers have returned, over an installed service, the first swap of
\* the chain was not the first goroutine's, and the test has read the holder.
C5_Witness ==
    /\ AllReturned
    /\ NoneInvoked
    /\ checked = globalService
    /\ original # Nil
    /\ owner[1] # 1
    /\ globalService # MockOf(NumWriters)

\* C6: over an installed service, with writers that each install a non-nil
\* service and then invoke their own closure, the holder is never nil and every
\* GetLocalizerService call returns a non-nil service. (The service is
\* installed when the test goroutine's swap has returned; the concurrent part
\* ends when its deferred restore begins.)
C6_NeverNil ==
    /\ Concurrent => globalService # Nil
    /\ \A t \in Threads : pc[t] = "get_runlock" => got[t] # Nil

\* A reader is about to return a writer's mock while some writer has already
\* restored and another has not.
C6_Witness ==
    \E t \in Readers :
        /\ pc[t] = "get_runlock"
        /\ got[t] # BaseMock
        /\ finished # {}
        /\ finished # MixedWriters

\* C7: a pass-through call that finds the holder nil (it held nil for the whole
\* call) panics: it returns nothing, no service is called, and the holder is
\* still nil.
C7_NilPanics ==
    \A t \in Threads :
        (pc[t] = "done" /\ seen[t] = {Nil}) =>
            /\ ret[t] = Panic
            /\ called[t] = <<>>
            /\ globalService = Nil

\* MustTranslate has panicked on a holder that was emptied by SetLocalizerService(nil).
C7_Witness ==
    /\ pc[Caller] = "done"
    /\ op[Caller] = "MustTranslate"
    /\ seen[Caller] = {Nil}
    /\ ret[Caller] = Panic
    /\ nSwaps = MaxSwaps
    /\ pc[Installer] = "idle"

\* C8: a pass-through call that got a service has called that service's method
\* of the same name, with its own arguments, exactly once, and returns what the
\* method answered; the service is one the holder held during the read, the
\* installed one when no write was made meanwhile.
C8_PassThrough ==
    \A t \in Threads :
        (pc[t] = "done" /\ got[t] # Nil) =>
            /\ called[t] = <<[svc |-> got[t], method |-> op[t], arg |-> arg[t]]>>
            /\ ret[t] = MockReturn(got[t], op[t], arg[t])
            /\ got[t] \in seen[t]
            /\ Cardinality(seen[t]) = 1 => got[t] = globalService

\* Translate has returned the mock's success = TRUE together with a non-nil error.
C8_Witness ==
    /\ pc[Caller] = "done"
    /\ op[Caller] = "Translate"
    /\ got[Caller] = 2
    /\ ret[Caller].ok
    /\ ret[Caller].err
    /\ seen[Caller] = {2}

\* ----------------------------------------------- claims on the registry

\* The locales of the files NewI18n was given, and the localizer made for the
\* last file of locale l.
LoadedLocales == {regIn.scan.files[i].locale : i \in 1..Len(regIn.scan.files)}

LastFileOf(l) ==
    CHOOSE i \in 1..Len(regIn.scan.files) :
        /\ regIn.scan.files[i].locale = l
        /\ \A j \in 1..Len(regIn.scan.files) : regIn.scan.files[j].locale = l => j <= i

HandleOf(l) == NewLocalizer(l, LastFileOf(l))

Looked == reg.service.built /\ lookup # NoLookup

\* C9: on a registry NewI18n built, GetLocalizer of the default locale, and of
\* every loaded locale, returns that locale's own localizer with found = TRUE
\* and a nil error; the default locale is a loaded one.
C9_LoadedLocaleFound ==
    /\ reg.service.built => reg.service.defaultLang \in LoadedLocales
    /\ (Looked /\ lookup.lang \in LoadedLocales) =>
          /\ lookup.localizer = HandleOf(lookup.lang)
          /\ lookup.found
          /\ lookup.err = "none"

\* GetLocalizer(D) has answered on a registry that holds another locale too.
C9_Witness ==
    /\ Looked
    /\ lookup.lang = regIn.defaultLang
    /\ lookup.found
    /\ Cardinality(LoadedLocales) >= 2

\* C10: on a registry NewI18n built, GetLocalizer of a locale that is not
\* loaded (as a whole tag: a loaded tag of the same base language does not
\* count) returns the default locale's localizer with found = FALSE and a nil
\* error.
C10_FallbackToDefault ==
    (Looked /\ lookup.lang \notin LoadedLocales) =>
        /\ lookup.localizer = HandleOf(regIn.defaultLang)
        /\ ~lookup.found
        /\ lookup.err = "none"

\* "en-US" was asked of a registry that holds "en" and whose default is another
\* language: the default's localizer came back.
C10_Witness ==
    /\ Looked
    /\ lookup.lang = TagOf(1, 1)
    /\ TagOf(1, 0) \in LoadedLocales
    /\ lookup.lang \notin LoadedLocales
    /\ regIn.defaultLang = TagOf(2, 0)
    /\ lookup.localizer.lang = TagOf(2, 0)
    /\ ~lookup.found

\* The paths of the descriptors NewI18n was given, in order; the positions of
\* those the backend cannot load; NewI18n has returned.
ScanPaths == [i \in 1..Len(regIn.scan.files) |-> regIn.scan.files[i].path]

FailingAt == {i \in 1..Len(regIn.scan.files) : regIn.scan.files[i].path \in regIn.fails}

Returned == reg.err # "pending"

\* C11: the default locale is checked once every load has succeeded: when the
\* scan gave descriptors, all of them load and none has the default locale,
\* NewI18n returns the default-locale error and no service, having loaded every
\* file; it returns that error in no other case; and every service it returns
\* has its default locale as a key of its localizers.
C11_DefaultCheckedAfterLoads ==
    Returned =>
        /\ (regIn.scan.err = "none" /\ Len(regIn.scan.files) > 0 /\ FailingAt = {}
              /\ regIn.defaultLang \notin LoadedLocales)
             <=> reg.err = "default"
        /\ reg.err = "default" => (~reg.service.built /\ reg.loaded = ScanPaths)
        /\ reg.service.built =>
             /\ reg.err = "none"
             /\ reg.service.defaultLang = regIn.defaultLang
             /\ reg.service.defaultLang \in DOMAIN reg.service.localizers

\* Two files of two locales were loaded and the default (a region variant of
\* one of them) is neither: the default-locale error came back.
C11_Witness ==
    /\ reg.err = "default"
    /\ Len(reg.loaded) = 2
    /\ Cardinality(LoadedLocales) = 2
    /\ regIn.defaultLang = TagOf(1, 1)
    /\ TagOf(1, 0) \in LoadedLocales

\* C12: the first descriptor the backend fails to load aborts NewI18n: no
\* service, the load error naming that descriptor's path, the files before it
\* loaded and none after it tried, whether or not the default locale is among
\* the descriptors.
C12_FirstLoadFailureAborts ==
    (Returned /\ regIn.scan.err = "none" /\ FailingAt # {}) =>
        LET first == CHOOSE i \in FailingAt : \A j \in FailingAt : i <= j IN
        /\ reg.err = "load"
        /\ ~reg.service.built
        /\ reg.path = ScanPaths[first]
        /\ reg.loaded = SubSeq(ScanPaths, 1, first)

\* The first of two files failed to load, the second would have loaded, and
\* the default locale is absent too: the load error names the first file.
C12_Witness ==
    /\ reg.err = "load"
    /\ Len(regIn.scan.files) = 2
    /\ FailingAt = {1}
    /\ Len(reg.loaded) = 1
    /\ regIn.defaultLang \notin LoadedLocales

\* ------------------------------------------------ claims on translation

\* The backend fails on the message of the latest call.
BackendFails == catalog[<<tr.localizer, tr.message.id>>] # "text"

\* C14: a Translate call reports success exactly when its error is nil; with a
\* nil message, an empty id or a failing backend it returns the empty string,
\* success = FALSE and an error; and the backend is not called for a nil
\* message or an empty id (it is called once otherwise).
C14_TranslateOutcome ==
    tr.op = "Translate" =>
        /\ tr.ok <=> tr.err = "none"
        /\ tr.message.isNil => (tr.err # "none" /\ tr.calls = <<>>)
        /\ (~tr.message.isNil /\ tr.message.id = EmptyID) =>
              (tr.err # "none" /\ tr.calls = <<>>)
        /\ (IsLocalizer(tr.localizer) /\ ~tr.message.isNil /\ tr.message.id # EmptyID) =>
              /\ tr.calls = <<[loc |-> tr.localizer, id |-> tr.message.id]>>
              /\ BackendFails <=> tr.err = "localize"
              /\ ~BackendFails => tr.result = Rendered(tr.localizer, tr.message.id)
        /\ tr.err # "none" => (tr.result = <<>> /\ ~tr.ok)

\* Translate has failed on a message for which the backend gave a text together
\* with an error.
C14_Witness ==
    /\ tr.op = "Translate"
    /\ tr.err = "localize"
    /\ catalog[<<tr.localizer, tr.message.id>>] = "partial"
    /\ tr.result = <<>>

\* C15: Translate of a message whose id is empty fails with the empty-id error
\* and success = FALSE, whichever localizer it is given.
C15_EmptyIDRejected ==
    (tr.op = "Translate" /\ IsLocalizer(tr.localizer) /\ ~tr.message.isNil
        /\ tr.message.id = EmptyID) =>
        /\ tr.err = "message ID cannot be empty"
        /\ ~tr.ok
        /\ tr.result = <<>>

\* The empty id was refused with the second localizer, over a catalog in which
\* that localizer translates every message.
C15_Witness ==
    /\ tr.op = "Translate"
    /\ tr.localizer = NewLocalizer(TagOf(2, 0), 2)
    /\ tr.message = MessageOf(EmptyID)
    /\ tr.err = "message ID cannot be empty"
    /\ \A id \in MsgIds : catalog[<<tr.localizer, id>>] = "text"

\* C16: MustTranslate panics exactly when Translate, on the same arguments,
\* returns an error, and returns Translate's string otherwise.
C16_MustTranslatePanics ==
    tr.op = "MustTranslate" =>
        /\ tr.panic <=> Translate(tr.localizer, tr.message).err # "none"
        /\ ~tr.panic => tr.result = Translate(tr.localizer, tr.message).result
        /\ tr.calls = Translate(tr.localizer, tr.message).calls

\* MustTranslate has panicked on a message the backend does not know.
C16_Witness ==
    /\ tr.op = "MustTranslate"
    /\ tr.panic
    /\ IsLocalizer(tr.localizer)
    /\ ~tr.message.isNil
    /\ tr.message.id # EmptyID
    /\ catalog[<<tr.localizer, tr.message.id>>] = "notfound"

\* ---------------------------------------------------- claims on the scan

\* The directory was readable and discoverTranslationFiles has returned; the
\* entries and prefixes it was given; the check at which entry i stopped.
Scanned == scanned.err # "pending" /\ scanIn.dir.status = "ok"

Entries == scanIn.dir.entries

StopOf(i) == CheckEntry(Entries[i], scanIn.prefixes)

InvalidAt == {i \in 1..Len(Entries) : StopOf(i) \in {"file", "locale"}}

IsValidEntry(e) == CheckEntry(e, scanIn.prefixes) = "ok"

IsInvalidEntry(e) == CheckEntry(e, scanIn.prefixes) \in {"file", "locale"}

NamesOf(es) == [i \in 1..Len(es) |-> es[i].name]

\* C13: when the scan succeeds with no descriptor (the directory is empty, or
\* each entry is skipped as a directory, for its extension or for its prefix),
\* NewI18n returns the no-files error and no service, and loads nothing.
C13_NoCandidates ==
    (Returned /\ scanIn.dir.status = "ok"
        /\ \A i \in 1..Len(Entries) : StopOf(i) \in {"dir", "ext", "prefix"}) =>
        /\ regIn.scan.err = "none"
        /\ regIn.scan.files = <<>>
        /\ reg.err = "nofiles"
        /\ ~reg.service.built
        /\ reg.loaded = <<>>

\* NewI18n has refused a directory of two entries, a well-named file of another
\* prefix among them.
C13_Witness ==
    /\ reg.err = "nofiles"
    /\ Len(Entries) = 2
    /\ \E i \in 1..2 : StopOf(i) = "prefix" /\ Entries[i].name = <<"other", "en-US", "yaml">>

\* C17: on a readable directory, discoverTranslationFiles returns the
\* descriptors of all valid candidates, in order, whether or not other
\* candidates are invalid; it returns an error exactly when some candidate is
\* invalid, and that error names every invalid file, counts them, and lists
\* the accepted extensions.
C17_ValidListAndAggregatedError ==
    Scanned =>
        /\ [i \in 1..Len(scanned.files) |-> scanned.files[i].path]
              = [i \in 1..Len(SelectSeq(Entries, IsValidEntry)) |->
                    JoinPath(SelectSeq(Entries, IsValidEntry)[i].name)]
        /\ scanned.err = (IF InvalidAt = {} THEN "none" ELSE "invalid")
        /\ scanned.err = "invalid" =>
              /\ scanned.invalid = NamesOf(SelectSeq(Entries, IsInvalidEntry))
              /\ scanned.count = Cardinality(InvalidAt)
              /\ scanned.exts = supportedExtensions

\* "active..toml" and "active.en.toml": one descriptor and the error naming
\* "active..toml".
C17_Witness ==
    /\ Scanned
    /\ NamesOf(Entries) = << <<"active", "", "toml">>, <<"active", "en", "toml">> >>
    /\ Len(scanned.files) = 1
    /\ scanned.files[1].locale = TagOf(1, 0)
    /\ scanned.err = "invalid"
    /\ scanned.invalid = << <<"active", "", "toml">> >>

\* An entry is a well-formed translation file: a readable file within the size
\* ceiling, named prefix.locale.ext with a supported extension in any letter
\* case and a locale segment that is a valid tag.
WellFormed(e) ==
    /\ ~e.isDir
    /\ e.readable
    /\ e.size <= maxTranslationFileSize
    /\ Len(e.name) = 3
    /\ CharsOf(e.name[1]) \in {"alnum", "hyphen", "underscore"}
    /\ CharsOf(e.name[2]) \in {"alnum", "hyphen"}
    /\ ~ParseTag(e.name[2]).err
    /\ ParseTag(e.name[2]).tag # Und
    /\ InExtensions(ToLower(e.name[3]))

\* C18: on a directory whose entries are all well-formed translation files,
\* discoverTranslationFiles without prefixes returns one descriptor per entry,
\* with the entry's path and the tag of its locale segment, and no error.
C18_WellFormedAllReturned ==
    (Scanned /\ scanIn.prefixes = <<>> /\ \A i \in 1..Len(Entries) : WellFormed(Entries[i])) =>
        /\ scanned.files = [i \in 1..Len(Entries) |->
                               [path |-> JoinPath(Entries[i].name),
                                locale |-> ParseTag(Entries[i].name[2]).tag]]
        /\ scanned.err = "none"

\* C19: a candidate whose name matches the naming grammar but whose locale
\* segment does not parse, or parses to a tag that fails validation, is not in
\* the valid list and is named in the error; no descriptor carries
\* language.Und.
\* It fails on "active.english.YML": the upper-case extension is not stripped,
\* "YML" is read as the locale token and parses to the language yml, and the
\* file is returned although "english" is no tag.
C19_BadLocaleExcluded ==
    /\ Scanned =>
         \A i \in 1..Len(Entries) :
            (StopOf(i) \in {"locale", "ok"} /\ MatchesFilenameRegex(Entries[i].name)
                /\ (ParseTag(Entries[i].name[2]).err \/ ParseTag(Entries[i].name[2]).tag = Und))
              => /\ \A k \in 1..Len(scanned.files) :
                       scanned.files[k].path # JoinPath(Entries[i].name)
                 /\ \E k \in 1..Len(scanned.invalid) : scanned.invalid[k] = Entries[i].name
                 /\ scanned.err = "invalid"
    /\ \A k \in 1..Len(scanned.files) : scanned.files[k].locale # Und
    /\ \A k \in 1..Len(regIn.scan.files) : regIn.scan.files[k].locale # Und

\* "active.english.toml" (no tag) and "active.und.yml" (the undefined tag) are
\* both named in the error and no descriptor is returned.
C19_Witness ==
    /\ Scanned
    /\ scanned.invalid = << <<"active", "english", "toml">>, <<"active", "und", "yml">> >>
    /\ scanned.files = <<>>

\* C20: an entry that is a directory is not returned as a descriptor and not
\* reported as invalid, whatever its name: the directory check comes first.
\* The scan looks at the direct entries only, each once.
C20_DirectoriesSkipped ==
    Scanned =>
        /\ NamesOf(scanned.log) = NamesOf(Entries)
        /\ \A i \in 1..Len(Entries) :
              Entries[i].isDir =>
                 /\ scanned.log[i].stop = "dir"
                 /\ \A k \in 1..Len(scanned.files) :
                       scanned.files[k].path # JoinPath(Entries[i].name)
                 /\ \A k \in 1..Len(scanned.invalid) : scanned.invalid[k] # Entries[i].name

\* A directory named "active.en.toml" was skipped, next to a file that was
\* accepted, with the prefix "active" asked for.
C20_Witness ==
    /\ Scanned
    /\ scanIn.prefixes = <<"active">>
    /\ \E i \in 1..Len(Entries) :
          Entries[i].isDir /\ Entries[i].name = <<"active", "en", "toml">>
    /\ Len(scanned.files) = 1
    /\ scanned.err = "none"

\* Entry i is a file and its name ends with no supported extension; entry i is
\* a file and its name starts with none of the prefixes asked for, followed by
\* a dot; the name of entry i is among the paths returned, or reported invalid.
LacksExtension(i) ==
    /\ ~Entries[i].isDir
    /\ \/ Len(Entries[i].name) < 2
       \/ ToLower(Entries[i].name[Len(Entries[i].name)]) \notin {"toml", "json", "yaml", "yml"}

LacksPrefix(i) ==
    /\ ~Entries[i].isDir
    /\ scanIn.prefixes # <<>>
    /\ \A k \in 1..Len(scanIn.prefixes) : Entries[i].name[1] # scanIn.prefixes[k]

ReturnedAt(i) == \E k \in 1..Len(scanned.files) : scanned.files[k].path = JoinPath(Entries[i].name)

Reported(i) == \E k \in 1..Len(scanned.invalid) : scanned.invalid[k] = Entries[i].name

\* C21: a file whose name has no supported extension, or (when prefixes are
\* asked for) starts with none of them followed by a dot, is skipped: it is
\* neither returned nor reported invalid, and a directory of such files gives
\* no error. Without prefixes no file is skipped for its prefix.
C21_SilentlySkipped ==
    Scanned =>
        /\ \A i \in 1..Len(Entries) :
              (LacksExtension(i) \/ LacksPrefix(i)) =>
                  /\ ~ReturnedAt(i)
                  /\ ~Reported(i)
                  /\ scanned.log[i].stop \in {"ext", "prefix"}
        /\ (\A i \in 1..Len(Entries) : LacksExtension(i) \/ LacksPrefix(i)) =>
              scanned.err = "none"
        /\ scanIn.prefixes = <<>> =>
              \A i \in 1..Len(Entries) : scanned.log[i].stop # "prefix"

\* With the prefix "active" asked for, "other.en-US.yaml" was skipped for its
\* prefix and an unreadable "active.en.txt" for its extension, without error.
C21_Witness ==
    /\ Scanned
    /\ scanIn.prefixes = <<"active">>
    /\ NamesOf(Entries) = << <<"active", "en", "txt">>, <<"other", "en-US", "yaml">> >>
    /\ ~Entries[1].readable
    /\ scanned.log[1].stop = "ext"
    /\ scanned.log[2].stop = "prefix"
    /\ scanned.err = "none"

\* C22: a candidate is refused for its size exactly when it is larger than
\* 1,048,576 bytes: a readable candidate of 1,048,577 bytes is reported
\* invalid whatever its name, one of 1,048,576 bytes is not stopped by the file
\* check.
C22_SizeCeiling ==
    Scanned =>
        \A i \in 1..Len(Entries) :
            (~Entries[i].isDir /\ ~LacksExtension(i) /\ ~LacksPrefix(i) /\ Entries[i].readable) =>
                /\ Entries[i].size >= 1048577 =>
                      (scanned.log[i].stop = "file" /\ Reported(i) /\ ~ReturnedAt(i))
                /\ Entries[i].size <= 1048576 => scanned.log[i].stop # "file"

\* Two files named "active.en.toml" and "active.fr.json": the first, one byte
\* over the ceiling, is reported; the second, exactly at the ceiling, returned.
C22_Witness ==
    /\ Scanned
    /\ NamesOf(Entries) = << <<"active", "en", "toml">>, <<"active", "fr", "json">> >>
    /\ Entries[1].size = 1048577
    /\ Entries[2].size = 1048576
    /\ Reported(1)
    /\ ReturnedAt(2)

\* The name of an entry has three segments, a supported extension in any
\* letter case and a locale segment that is a valid tag.
AnyCaseWellNamed(name) ==
    /\ Len(name) = 3
    /\ CharsOf(name[1]) \in {"alnum", "hyphen", "underscore"}
    /\ CharsOf(name[2]) \in {"alnum", "hyphen"}
    /\ ~ParseTag(name[2]).err
    /\ ParseTag(name[2]).tag # Und
    /\ ToLower(name[3]) \in {"toml", "json", "yaml", "yml"}

\* C23: extensions are handled without regard to letter case from end to end:
\* for a file named prefix.locale.EXT, EXT a supported extension in any letter
\* case and locale a valid tag, hasSupportedExtension accepts the name,
\* extractLocaleFromFilename returns the tag of the locale segment, and the
\* scan returns the file.
C23_ExtensionAnyCase ==
    Scanned =>
        \A i \in 1..Len(Entries) :
            (AnyCaseWellNamed(Entries[i].name) /\ ~Entries[i].isDir /\ ~LacksPrefix(i)
                /\ isValidFile(Entries[i])) =>
                /\ hasSupportedExtension(Entries[i].name)
                /\ extractLocaleFromFilename(Entries[i].name)
                      = [locale |-> ParseTag(Entries[i].name[2]).tag, err |-> "none"]
                /\ ReturnedAt(i)

\* C24: discoverTranslationFiles fails as a whole, with no list, an error and
\* no entry looked at, when the path does not exist, is not a directory, or
\* cannot be listed; each failure has its own error.
C24_FatalScanErrors ==
    (scanned.err # "pending" /\ scanIn.dir.status # "ok") =>
        /\ scanned.files = <<>>
        /\ scanned.err = "fatal"
        /\ scanned.log = <<>>
        /\ scanned.invalid = <<>>
        /\ scanIn.dir.status = "missing" => scanned.why = "does not exist"
        /\ scanIn.dir.status = "notdir" => scanned.why = "not a directory"
        /\ scanIn.dir.status = "readerr" => scanned.why = "failed to read"

\* The path is a file, not a directory, and what is there bears the name of a
\* translation file: the scan failed without looking at it.
C24_Witness ==
    /\ scanned.err = "fatal"
    /\ scanIn.dir.status = "notdir"
    /\ NamesOf(Entries) = << <<"active", "en", "toml">> >>
    /\ scanned.log = <<>>

\* The segments that hold a character outside [A-Za-z0-9_-], and those that
\* hold an underscore.
Disallowed == {"a/b", "act ive"}

WithUnderscore == {"my_app", "en_US"}

\* The name has exactly three non-empty segments, the first over [A-Za-z0-9_-]
\* and the second over [A-Za-z0-9-].
ThreeSegments(name) ==
    /\ Len(name) = 3
    /\ \A k \in 1..3 : name[k] # ""
    /\ name[1] \notin Disallowed
    /\ name[2] \notin Disallowed \cup WithUnderscore

\* C25: extractAndValidateLocaleFromFilename accepts a name only if it has
\* exactly three non-empty segments, the first over [A-Za-z0-9_-] and the second
\* over [A-Za-z0-9-]; every other name is rejected with the format error, and
\* every rejection returns the undefined tag with the error.
C25_NameFormat ==
    extracted.err # "pending" =>
        /\ extracted.err = "none" => ThreeSegments(extracted.name)
        /\ ~ThreeSegments(extracted.name) => extracted.err = "regex"
        /\ extracted.err # "none" => extracted.locale = Und
        /\ extracted.err = "none" => extracted.locale # Und

\* The name "a/b..en.toml" ("a/b", an empty segment, "en", "toml") was
\* rejected with the format error and the undefined tag.
C25_Witness ==
    /\ extracted.name = <<"a/b", "", "en", "toml">>
    /\ extracted.err = "regex"
    /\ extracted.locale = Und

\* Goroutine t is about to call, or is inside, a method of the service it got.
AtService(t) == pc[t] \in {"invoke", "in_service"}

\* C26: no lock of the holder is held while a service method runs: the caller
\* of a pass-through function has released the read lock before it calls the
\* service, it holds or awaits no write lock, the call runs on the service the
\* caller read; the read lock is held only between RLock and RUnlock, so a
\* swap waits for no service call.
C26_NoLockAcrossServiceCall ==
    /\ \A t \in Threads :
          AtService(t) =>
              /\ t \notin muReaders
              /\ muWriter # t
              /\ pc[t] = "in_service" => called[t][Len(called[t])].svc = got[t]
    /\ muReaders = {t \in Threads : pc[t] \in {"get_read", "get_runlock"}}

\* The caller is inside a method of service 1, which it read, and the
\* installer has completed a swap to service 2 since the caller released the
\* read lock: the holder has another value and no lock is held.
C26_Witness ==
    /\ pc[Caller] = "in_service"
    /\ got[Caller] = 1
    /\ called[Caller][Len(called[Caller])].svc = 1
    /\ seen[Caller] = {1, 2, Nil}
    /\ globalService = 2
    /\ pc[Installer] = "idle"
    /\ muWriter = 0
    /\ muReaders = {}

\* Every writer goroutine of the mixed test has installed its mock and invoked
\* its restore closure, and has returned; the test goroutine's deferred
\* restore has not begun.
WritersDone ==
    /\ finished = MixedWriters
    /\ \A t \in MixedWriters \cup {Tester} : pc[t] = "idle"

\* C27, as stated: once every concurrent writer has swapped and invoked its
\* restore closure, the holder contains the service installed before they
\* started.
C27_NoTrace == WritersDone => globalService = BaseMock

\* C27, amended: once every concurrent writer has swapped and invoked its
\* restore closure, the holder contains a snapshot one of their closures
\* captured: the service installed before they started or another writer's
\* service, never nil and never a value no swap saw.
C27_SomeSnapshot ==
    WritersDone =>
        /\ globalService # Nil
        /\ globalService \in {BaseMock} \cup {MockOf(t) : t \in MixedWriters}
        /\ \E c \in ClosureIds :
              /\ closures[c].made
              /\ owner[c] \in MixedWriters
              /\ closures[c].prev = snap[c]
              /\ globalService = snap[c]
              /\ globalService # MockOf(owner[c])

\* Both writers have swapped and restored, the second writer's swap having
\* come between the first writer's swap and restore: the holder is left with
\* the first writer's mock, not with the service installed before.
C27_Witness ==
    /\ WritersDone
    /\ globalService = MockOf(1)
    /\ owner[1] = Tester
    /\ owner[2] = 1
    /\ owner[3] = 2
    /\ snap[2] = BaseMock
    /\ snap[3] = MockOf(1)

\* C28: NewI18n accepts no partial scan: when discoverTranslationFiles returns
\* an error, the invalid-files error that comes with valid descriptors
\* included, NewI18n returns no registry and the discovery error and loads no
\* file; and every call returns a registry with a nil error or no registry
\* with an error.
C28_NoPartialScan ==
    Returned =>
        /\ regIn.scan.err # "none" =>
              /\ ~reg.service.built
              /\ reg.err = "discover"
              /\ reg.loaded = <<>>
        /\ reg.service.built <=> reg.err = "none"
        /\ ~reg.service.built => reg.service = NoService

\* The directory holds the valid "active.en.toml" and the malformed
\* "active..toml": the scan returned the first with the invalid-files error,
\* and NewI18n, asked for English, returned no registry and loaded nothing.
C28_Witness ==
    /\ Returned
    /\ regIn.defaultLang = TagOf(1, 0)
    /\ regIn.scan.err = "invalid"
    /\ Len(regIn.scan.files) = 1
    /\ regIn.scan.files[1].locale = TagOf(1, 0)
    /\ regIn.scan.invalid = << <<"active", "", "toml">> >>
    /\ reg.err = "discover"
    /\ ~reg.service.built
    /\ reg.loaded = <<>>

\* Entry i is unreadable or larger than the ceiling; the name of entry i is
\* refused by the name and locale validation.
FailsFileCheck(i) == ~Entries[i].readable \/ Entries[i].size > 1048576

FailsNameCheck(i) == extractAndValidateLocaleFromFilename(Entries[i].name).err # "none"

\* The first check entry i fails, in the order directory, extension, prefix,
\* size/readability, name and locale.
FirstFailing(i) ==
    IF Entries[i].isDir THEN "dir"
    ELSE IF LacksExtension(i) THEN "ext"
    ELSE IF LacksPrefix(i) THEN "prefix"
    ELSE IF FailsFileCheck(i) THEN "file"
    ELSE IF FailsNameCheck(i) THEN "locale"
    ELSE "ok"

TimesReported(i) ==
    Cardinality({k \in 1..Len(scanned.invalid) : scanned.invalid[k] = Entries[i].name})

\* C29: the scan applies its checks to each entry in the order directory,
\* extension, prefix, size/readability, name and locale, and stops at the first
\* that fails: an oversized or malformed file that matches no requested prefix
\* is skipped and not reported, and a file that fails the size check and the
\* name check is reported invalid exactly once.
C29_CheckOrder ==
    Scanned =>
        \A i \in 1..Len(Entries) :
            /\ scanned.log[i].stop = FirstFailing(i)
            /\ TimesReported(i) = IF FirstFailing(i) \in {"file", "locale"} THEN 1 ELSE 0
            /\ ReturnedAt(i) <=> FirstFailing(i) = "ok"
            /\ (LacksPrefix(i) /\ (FailsFileCheck(i) \/ FailsNameCheck(i))) => ~Reported(i)
            /\ (~Entries[i].isDir /\ ~LacksExtension(i) /\ ~LacksPrefix(i)
                  /\ FailsFileCheck(i) /\ FailsNameCheck(i)) =>
                  (scanned.log[i].stop = "file" /\ TimesReported(i) = 1)

\* With the prefix "active" asked for, the oversized and malformed
\* "act ive.en.toml" was skipped for its prefix, and the oversized and malformed
\* "active..toml" was reported once, for its size.
C29_Witness ==
    /\ Scanned
    /\ scanIn.prefixes = <<"active">>
    /\ NamesOf(Entries) = << <<"act ive", "en", "toml">>, <<"active", "", "toml">> >>
    /\ \A i \in 1..2 : Entries[i].size = 1048577 /\ FailsNameCheck(i)
    /\ scanned.log[1].stop = "prefix"
    /\ scanned.log[2].stop = "file"
    /\ scanned.invalid = << <<"active", "", "toml">> >>

\* A goroutine that is in no call holds no lock.
ReleasedOnReturn ==
    \A t \in Threads : pc[t] = "idle" => (t \notin muReaders /\ muWriter # t)

\* A closure that is being invoked exists: the swap that made it has returned,
\* and with it released the lock.
RestoreAfterRelease ==
    \A t \in Threads :
        (op[t] = "Restore" /\ pc[t] # "idle") =>
            /\ closures[cid[t]].made
            /\ \A u \in Threads : ~(op[u] = "Set" /\ cid[u] = cid[t] /\ pc[u] # "idle")

\* Goroutine t is in a call and its next step waits for nothing that is not
\* there.
CanStep(t) ==
    \/ pc[t] = "set_call" /\ muWriter = 0
    \/ pc[t] = "set_wait" /\ muReaders = {}
    \/ pc[t] = "get_rlock" /\ muWriter = 0
    \/ pc[t] \in {"set_read", "set_write", "set_unlock", "get_read", "get_runlock"}

NoDeadlock == (\E t \in Threads : pc[t] # "idle") => \E t \in Threads : CanStep(t)

\* C30: under fair scheduling every SetLocalizerService, restore-closure and
\* GetLocalizerService call returns in the end; a goroutine that has returned
\* holds no lock, a closure takes the lock only after the swap that made it has
\* released it, and while a call is pending some call can take a step.
C30_EveryCallReturns ==
    /\ [](ReleasedOnReturn /\ RestoreAfterRelease /\ NoDeadlock)
    /\ \A t \in 1..NumLive : (pc[t] # "idle") ~> (pc[t] = "idle")

\* A restore closure has been invoked and waits for the writers' mutex, which
\* another goroutine's invocation of a closure holds.
C30_Witness ==
    /\ pc[1] = "set_call"
    /\ op[1] = "Restore"
    /\ muWriter = 2
    /\ pc[2] = "set_write"
    /\ op[2] = "Restore"

====
